---- MODULE Spec2Model ----
(***************************************************************************)
(* Model of chat_with_pdf/chatbot.py: the Reflex State class with its     *)
(* handlers handle_upload, chat and clear_chat, the OCR fallback          *)
(* extract_text_with_ocr, and the external collaborators they drive       *)
(* (upload directory, PDF parser, rasterizer + OCR engine, vector store,  *)
(* chat provider), whose outcomes are chosen nondeterministically.        *)
(*                                                                         *)
(* Strings are sequences of one-character strings.  A status message is   *)
(* the tuple of the fragments its f-string concatenates.                  *)
(*                                                                         *)
(* handle_upload is a coroutine: it suspends once, at `await file.read()`,*)
(* and runs from there to its return without yielding to the event loop.  *)
(* pc[s] is the position of session s inside handle_upload; the handlers  *)
(* of one session run one at a time.                                       *)
(***************************************************************************)
EXTENDS Integers, Sequences, FiniteSets, Bags, TLC

\* ---------------------------------------------------------------- bounds
MaxPages == 2       \* pages of an uploaded PDF
MaxDocs == 2        \* documents the vector store holds at most
MaxMessages == 2    \* entries of one session's Message sequence at most

\* ------------------------------------------------------ input alphabets
Sessions == {"A", "B"}
Filenames == {"contract.pdf", "scan.pdf"}
Questions == {"", "q"}
Answers == {"r"}
ExcText == "e"       \* the text of an exception, str(e)
None == "None"

NL == "\n"
Whitespace == {" ", NL}

\* what page.extract_text() can deliver for one page (None counts as "",
\* both are falsy at line 96), or that it raises
PageOutcomes ==
    {[raise |-> FALSE, text |-> t] : t \in {<<>>, <<" ">>, <<"a">>}}
        \cup {[raise |-> TRUE, text |-> <<>>]}

\* what preprocess_image + pytesseract.image_to_string deliver for one
\* page image, or that they raise
ImageOutcomes ==
    {[raise |-> FALSE, text |-> t] : t \in {<<>>, <<" ">>, <<"b">>}}
        \cup {[raise |-> TRUE, text |-> <<>>]}

SeqsUpTo(S, n) == UNION {[1..k -> S] : k \in 0..n}

\* PyPDF2.PdfReader(f) on a PDF of at most n pages: raises on opening, or
\* gives the pages
ReaderOutcomes(n) ==
    {[open |-> FALSE, pages |-> <<>>]}
        \cup {[open |-> TRUE, pages |-> p] : p \in SeqsUpTo(PageOutcomes, n)}

\* convert_from_path(pdf_path) on a PDF of at most n pages: raises, or gives
\* the page images
RasterOutcomes(n) ==
    {[open |-> FALSE, images |-> <<>>]}
        \cup {[open |-> TRUE, images |-> p] : p \in SeqsUpTo(ImageOutcomes, n)}

\* rx.UploadFile: a filename and the bytes read from it (size 0 or not)
UploadFiles(names) == {[filename |-> f, size |-> n] : f \in names, n \in {0, 1}}

\* ------------------------------------------------------- pure functions
\* str.strip(): drop leading and trailing whitespace
RECURSIVE lstrip(_)
lstrip(s) ==
    IF s = <<>> THEN <<>>
    ELSE IF Head(s) \in Whitespace THEN lstrip(Tail(s)) ELSE s

RECURSIVE rstrip(_)
rstrip(s) ==
    IF s = <<>> THEN <<>>
    ELSE IF s[Len(s)] \in Whitespace THEN rstrip(SubSeq(s, 1, Len(s) - 1)) ELSE s

strip(s) == rstrip(lstrip(s))

\* the loop with a page's text put in front of the text extracted so far
RECURSIVE extract_pages_prepend(_, _, _)
extract_pages_prepend(pages, i, acc) ==
    IF i > Len(pages) THEN [raise |-> FALSE, text |-> acc]
    ELSE IF pages[i].raise THEN [raise |-> TRUE, text |-> acc]
    ELSE extract_pages_prepend(pages, i + 1, pages[i].text \o acc)

\* the loop of lines 94-97 from page i on, with the text accumulated so
\* far; the result is the text, or that a page raised
RECURSIVE extract_pages(_, _, _)
extract_pages(pages, i, acc) ==
    IF i > Len(pages) THEN [raise |-> FALSE, text |-> acc]
    ELSE IF pages[i].raise THEN [raise |-> TRUE, text |-> acc]
    ELSE IF pages[i].text # <<>>
         THEN extract_pages(pages, i + 1, acc \o pages[i].text)
         ELSE extract_pages(pages, i + 1, acc)

\* the direct extraction with a parser exception swallowed
extract_direct_swallow(reader) ==
    IF ~reader.open THEN [raise |-> FALSE, text |-> <<>>]
    ELSE [raise |-> FALSE, text |-> extract_pages(reader.pages, 1, <<>>).text]

\* lines 90-101: the direct extraction over the reader's outcome
extract_direct(reader) ==
    IF ~reader.open THEN [raise |-> TRUE, text |-> <<>>]
    ELSE extract_pages(reader.pages, 1, <<>>)

\* the OCR loop without the blank line after each page
RECURSIVE ocr_images_nosep(_, _, _)
ocr_images_nosep(images, i, acc) ==
    IF i > Len(images) THEN acc
    ELSE IF images[i].raise THEN acc
    ELSE ocr_images_nosep(images, i + 1, acc \o images[i].text)

\* the loop of lines 58-64 from image i on; an exception leaves the loop
\* (the try of line 55 encloses the whole loop) with the text so far
RECURSIVE ocr_images(_, _, _)
ocr_images(images, i, acc) ==
    IF i > Len(images) THEN acc
    ELSE IF images[i].raise THEN acc
    ELSE ocr_images(images, i + 1, acc \o images[i].text \o <<NL, NL>>)

\* lines 51-67
extract_text_with_ocr(raster) ==
    IF ~raster.open THEN <<>>
    ELSE ocr_images(raster.images, 1, <<>>)

\* the knowledge-base list with f only if it is not in it yet
kb_append_unique(kb, f) ==
    IF \E i \in 1..Len(kb) : kb[i] = f THEN kb ELSE Append(kb, f)

\* the knowledge-base list with f put first
kb_prepend(kb, f) == <<f>> \o kb

\* line 123: self.knowledge_base_files.append(self.pdf_filename)
kb_append(kb, f) == Append(kb, f)

\* ------------------------------------------------------ status messages
StatusNoFile == <<"No file uploaded!">>
StatusNotSaved == <<"File not saved properly or is empty!">>
StatusParseError(e) == <<"Error reading PDF with PyPDF2: ", e>>
StatusOcrFallback(f) == <<"No selectable text found in ", f, ", performing OCR...">>
StatusOcrFailed(f) == <<"OCR failed to extract meaningful content from ", f>>
StatusProcessed(f) == <<"Processed and added ", f, " to the knowledge base!">>
StatusIngestFailed(f, e) == <<"Failed to process ", f, ". Error: ", e>>

\* --------------------------------------------------------------- state
VARIABLES
    messages,               \* line 20, per session
    db_path,                \* line 21, per session
    pdf_filename,           \* line 22, per session
    knowledge_base_files,   \* line 23, per session
    user_question,          \* line 24, per session
    upload_status,          \* line 25, per session
    upload_dir,             \* the files under rx.get_upload_dir(), by name
    vectordb,               \* the chroma store of each directory: a bag of sources
    pc,                     \* position of each session in handle_upload
    local,                  \* the locals of each session's handle_upload call
    event                   \* the handler that ran last, and its session

vars == <<messages, db_path, pdf_filename, knowledge_base_files, user_question,
          upload_status, upload_dir, vectordb, pc, local, event>>

\* tempfile.mkdtemp() of line 21 is evaluated once, when the class body
\* runs; the directory it made is the default of every State instance
mkdtemp == "tmpdir0"
Dirs == {mkdtemp}

NoLocal ==
    [file |-> [filename |-> "", size |-> 0],        \* files[0]
     parsed |-> FALSE,          \* the direct extraction has run
     reader |-> [open |-> FALSE, pages |-> <<>>],   \* what the PDF parser delivered
     ocr_called |-> FALSE,      \* extract_text_with_ocr has been called
     raster |-> [open |-> FALSE, images |-> <<>>],  \* what rasterizer and OCR delivered
     extracted_text |-> <<>>,
     ingest |-> "none",         \* outcome of lines 113-127, "none" before them
     written |-> FALSE,         \* temp_text_file has been written
     temp_text |-> <<>>,        \* the content written to temp_text_file
     raised |-> None]           \* the exception that leaves the handler

\* positions from which handle_upload runs without yielding
SyncPcs == {"extract", "fallback", "ocr", "check", "ingest", "return"}
SyncBusy == \E t \in Sessions : pc[t] \in SyncPcs
InFlight == Cardinality({t \in Sessions : pc[t] # "idle"})
StoreSize == BagCardinality(vectordb[mkdtemp])
Event(op, s) == [op |-> op, session |-> s]

Init ==
    /\ messages = [s \in Sessions |-> <<>>]
    /\ db_path = [s \in Sessions |-> mkdtemp]
    /\ pdf_filename = [s \in Sessions |-> ""]
    /\ knowledge_base_files = [s \in Sessions |-> <<>>]
    /\ user_question = [s \in Sessions |-> ""]
    /\ upload_status = [s \in Sessions |-> <<"">>]
    /\ upload_dir = [f \in Filenames |-> None]
    /\ vectordb = [d \in Dirs |-> EmptyBag]
    /\ pc = [s \in Sessions |-> "idle"]
    /\ local = [s \in Sessions |-> NoLocal]
    /\ event = Event("none", None)

\* get_app, lines 27-38: the app is configured on the session's db_path
get_app(s) == db_path[s]

\* ------------------------------------------------------- handle_upload
\* lines 69-76: the event arrives; without files the handler returns at
\* once, else it suspends reading the first file
handle_upload(s, names) ==
    /\ pc[s] = "idle"
    /\ ~SyncBusy
    /\ StoreSize + InFlight < MaxDocs
    /\ \E files \in {<<>>} \cup {<<f>> : f \in UploadFiles(names)} :
        IF files = <<>>
        THEN /\ upload_status' = [upload_status EXCEPT ![s] = StatusNoFile]
             /\ UNCHANGED <<pc, local>>
        ELSE /\ local' = [local EXCEPT ![s] = [NoLocal EXCEPT !.file = files[1]]]
             /\ pc' = [pc EXCEPT ![s] = "read"]
             /\ UNCHANGED upload_status
    /\ event' = Event("handle_upload", s)
    /\ UNCHANGED <<messages, db_path, pdf_filename, knowledge_base_files,
                   user_question, upload_dir, vectordb>>

\* lines 77-87: resume after the read, save the file, check it
upload_save(s) ==
    /\ pc[s] = "read"
    /\ ~SyncBusy
    /\ LET file == local[s].file IN
       /\ pdf_filename' = [pdf_filename EXCEPT ![s] = file.filename]
       /\ \E saved \in {"written", "missing", "OSError"} :
          CASE saved = "OSError" ->
                /\ local' = [local EXCEPT ![s].raised = "OSError"]
                /\ pc' = [pc EXCEPT ![s] = "return"]
                /\ UNCHANGED <<upload_dir, upload_status>>
            [] saved = "missing" ->
                /\ upload_dir' = [upload_dir EXCEPT ![file.filename] = None]
                /\ upload_status' = [upload_status EXCEPT ![s] = StatusNotSaved]
                /\ pc' = [pc EXCEPT ![s] = "return"]
                /\ UNCHANGED local
            [] saved = "written" ->
                /\ upload_dir' = [upload_dir EXCEPT ![file.filename] = s]
                /\ IF file.size = 0
                   THEN /\ upload_status' = [upload_status EXCEPT ![s] = StatusNotSaved]
                        /\ pc' = [pc EXCEPT ![s] = "return"]
                   ELSE /\ pc' = [pc EXCEPT ![s] = "extract"]
                        /\ UNCHANGED upload_status
                /\ UNCHANGED local
    /\ event' = Event("handle_upload", s)
    /\ UNCHANGED <<messages, db_path, knowledge_base_files, user_question, vectordb>>

\* lines 89-101: direct extraction with the PDF parser
upload_extract(s, n) ==
    /\ pc[s] = "extract"
    /\ \E reader \in ReaderOutcomes(n) :
        LET r == extract_direct(reader) IN
        IF r.raise
        THEN /\ upload_status' = [upload_status EXCEPT ![s] = StatusParseError(ExcText)]
             /\ local' = [local EXCEPT ![s].parsed = TRUE, ![s].reader = reader]
             /\ pc' = [pc EXCEPT ![s] = "return"]
        ELSE /\ local' = [local EXCEPT ![s].parsed = TRUE, ![s].reader = reader,
                                       ![s].extracted_text = r.text]
             /\ pc' = [pc EXCEPT ![s] = "fallback"]
             /\ UNCHANGED upload_status
    /\ event' = Event("handle_upload", s)
    /\ UNCHANGED <<messages, db_path, pdf_filename, knowledge_base_files,
                   user_question, upload_dir, vectordb>>

\* lines 103-105: no text found, announce the OCR fallback
upload_fallback(s) ==
    /\ pc[s] = "fallback"
    /\ IF strip(local[s].extracted_text) = <<>>
       THEN /\ upload_status' = [upload_status EXCEPT ![s] =
                                    StatusOcrFallback(pdf_filename[s])]
            /\ pc' = [pc EXCEPT ![s] = "ocr"]
       ELSE /\ pc' = [pc EXCEPT ![s] = "check"]
            /\ UNCHANGED upload_status
    /\ event' = Event("handle_upload", s)
    /\ UNCHANGED <<messages, db_path, pdf_filename, knowledge_base_files,
                   user_question, upload_dir, vectordb, local>>

\* line 106: the call of extract_text_with_ocr
upload_ocr(s, n) ==
    /\ pc[s] = "ocr"
    /\ \E raster \in RasterOutcomes(n) :
        local' = [local EXCEPT ![s].raster = raster,
                               ![s].ocr_called = TRUE,
                               ![s].extracted_text = extract_text_with_ocr(raster)]
    /\ pc' = [pc EXCEPT ![s] = "check"]
    /\ event' = Event("handle_upload", s)
    /\ UNCHANGED <<messages, db_path, pdf_filename, knowledge_base_files,
                   user_question, upload_status, upload_dir, vectordb>>

\* lines 108-110: still no text, give up
upload_check(s) ==
    /\ pc[s] = "check"
    /\ IF strip(local[s].extracted_text) = <<>>
       THEN /\ upload_status' = [upload_status EXCEPT ![s] =
                                    StatusOcrFailed(pdf_filename[s])]
            /\ pc' = [pc EXCEPT ![s] = "return"]
       ELSE /\ pc' = [pc EXCEPT ![s] = "ingest"]
            /\ UNCHANGED upload_status
    /\ event' = Event("handle_upload", s)
    /\ UNCHANGED <<messages, db_path, pdf_filename, knowledge_base_files,
                   user_question, upload_dir, vectordb, local>>

\* lines 112-127: write the text artifact and add it to the vector store.
\* get_app (line 113) is called before the try.  "ValueError" is the
\* exception the except clause of line 125 names, "Exception" any other
\* exception of app.add.
upload_ingest(s) ==
    /\ pc[s] = "ingest"
    /\ \E outcome \in {"ok", "ValueError", "Exception", "get_app raises"} :
        CASE outcome = "ok" ->
              /\ local' = [local EXCEPT ![s].written = TRUE,
                                        ![s].temp_text = local[s].extracted_text,
                                        ![s].ingest = outcome]
              /\ vectordb' = [vectordb EXCEPT ![get_app(s)] =
                                 @ (+) SetToBag({[owner |-> s,
                                                  file |-> local[s].file.filename]})]
              /\ knowledge_base_files' = [knowledge_base_files EXCEPT ![s] =
                                             kb_append(@, pdf_filename[s])]
              /\ upload_status' = [upload_status EXCEPT ![s] =
                                      StatusProcessed(pdf_filename[s])]
          [] outcome = "ValueError" ->
              /\ local' = [local EXCEPT ![s].written = TRUE,
                                        ![s].temp_text = local[s].extracted_text,
                                        ![s].ingest = outcome]
              /\ upload_status' = [upload_status EXCEPT ![s] =
                                      StatusIngestFailed(pdf_filename[s], ExcText)]
              /\ UNCHANGED <<vectordb, knowledge_base_files>>
          [] outcome = "Exception" ->
              /\ local' = [local EXCEPT ![s].written = TRUE,
                                        ![s].temp_text = local[s].extracted_text,
                                        ![s].ingest = outcome,
                                        ![s].raised = "Exception"]
              /\ UNCHANGED <<vectordb, knowledge_base_files, upload_status>>
          [] outcome = "get_app raises" ->
              /\ local' = [local EXCEPT ![s].ingest = outcome,
                                        ![s].raised = "Exception"]
              /\ UNCHANGED <<vectordb, knowledge_base_files, upload_status>>
    /\ pc' = [pc EXCEPT ![s] = "return"]
    /\ event' = Event("handle_upload", s)
    /\ UNCHANGED <<messages, db_path, pdf_filename, user_question, upload_dir>>

\* the handler is left (by return or by an exception): its locals are gone
upload_return(s) ==
    /\ pc[s] = "return"
    /\ pc' = [pc EXCEPT ![s] = "idle"]
    /\ local' = [local EXCEPT ![s] = NoLocal]
    /\ event' = Event("handle_upload", s)
    /\ UNCHANGED <<messages, db_path, pdf_filename, knowledge_base_files,
                   user_question, upload_status, upload_dir, vectordb>>

\* ------------------------------------------------- the other handlers
\* set_user_question, the setter bound to the input's on_change (line 213)
set_user_question(s) ==
    /\ pc[s] = "idle"
    /\ ~SyncBusy
    /\ \E q \in Questions :
        /\ q # user_question[s]
        /\ user_question' = [user_question EXCEPT ![s] = q]
    /\ event' = Event("set_user_question", s)
    /\ UNCHANGED <<messages, db_path, pdf_filename, knowledge_base_files,
                   upload_status, upload_dir, vectordb, pc, local>>

Message(role, content) == [role |-> role, content |-> content]

\* lines 129-137; get_app or app.chat may raise, nothing catches it
chat(s) ==
    /\ pc[s] = "idle"
    /\ ~SyncBusy
    /\ Len(messages[s]) + 2 <= MaxMessages
    /\ IF user_question[s] = ""
       THEN UNCHANGED <<messages, user_question>>
       ELSE \E provider \in {"get_app raises", "chat raises"} \cup Answers :
            CASE provider = "get_app raises" ->
                  UNCHANGED <<messages, user_question>>
              [] provider = "chat raises" ->
                  /\ messages' = [messages EXCEPT ![s] =
                                     Append(@, Message("user", user_question[s]))]
                  /\ UNCHANGED user_question
              [] OTHER ->
                  /\ messages' = [messages EXCEPT ![s] =
                                     Append(Append(@, Message("user", user_question[s])),
                                            Message("assistant", provider))]
                  /\ user_question' = [user_question EXCEPT ![s] = ""]
    /\ event' = Event("chat", s)
    /\ UNCHANGED <<db_path, pdf_filename, knowledge_base_files, upload_status,
                   upload_dir, vectordb, pc, local>>

\* a clear that resets the knowledge-base list with the history
clear_chat_all(s) ==
    /\ pc[s] = "idle"
    /\ ~SyncBusy
    /\ messages' = [messages EXCEPT ![s] = <<>>]
    /\ knowledge_base_files' = [knowledge_base_files EXCEPT ![s] = <<>>]
    /\ event' = Event("clear_chat", s)
    /\ UNCHANGED <<db_path, pdf_filename, user_question,
                   upload_status, upload_dir, vectordb, pc, local>>

\* lines 139-141
clear_chat(s) ==
    /\ pc[s] = "idle"
    /\ ~SyncBusy
    /\ messages' = [messages EXCEPT ![s] = <<>>]
    /\ event' = Event("clear_chat", s)
    /\ UNCHANGED <<db_path, pdf_filename, knowledge_base_files, user_question,
                   upload_status, upload_dir, vectordb, pc, local>>

\* the upload pipeline of one session, on PDFs of at most n pages
Upload(s, names, n) ==
    \/ handle_upload(s, names)
    \/ upload_save(s)
    \/ upload_extract(s, n)
    \/ upload_fallback(s)
    \/ upload_ocr(s, n)
    \/ upload_check(s)
    \/ upload_ingest(s)
    \/ upload_return(s)

\* one session uploading PDFs of up to MaxPages pages
NextUpload == Upload("A", Filenames, MaxPages)

SpecUpload == Init /\ [][NextUpload]_vars

\* one session issuing every event, uploads of single-page PDFs
NextSession ==
    \/ Upload("A", Filenames, 1)
    \/ set_user_question("A")
    \/ chat("A")
    \/ clear_chat("A")

SpecSession == Init /\ [][NextSession]_vars

\* the sessions interleaved, all uploading single-page PDFs of one name
Next ==
    \E s \in Sessions :
        \/ Upload(s, {"contract.pdf"}, 1)
        \/ set_user_question(s)
        \/ chat(s)
        \/ clear_chat(s)

Spec == Init /\ [][Next]_vars

\* ================================================================ claims
\* the statuses that report a failed upload
FailureStatuses ==
    {StatusNoFile, StatusNotSaved, StatusParseError(ExcText)}
        \cup {StatusOcrFailed(f) : f \in Filenames}
        \cup {StatusIngestFailed(f, ExcText) : f \in Filenames}

\* the parser raised, on opening the file or on some page
ParserRaised(reader) ==
    \/ ~reader.open
    \/ \E i \in 1..Len(reader.pages) : reader.pages[i].raise

\* the texts of a sequence of outcomes joined in order, each followed by sep
RECURSIVE JoinTexts(_, _)
JoinTexts(outcomes, sep) ==
    IF outcomes = <<>> THEN <<>>
    ELSE Head(outcomes).text \o sep \o JoinTexts(Tail(outcomes), sep)

NonEmpty(o) == o.text # <<>>
NotRaising(o) == ~o.raise

\* the concatenation, in page order, of the non-empty page texts
DirectText(reader) == JoinTexts(SelectSeq(reader.pages, NonEmpty), <<>>)

\* the images before the first one on which the OCR engine raises
RECURSIVE UntilRaise(_)
UntilRaise(images) ==
    IF images = <<>> \/ Head(images).raise THEN <<>>
    ELSE <<Head(images)>> \o UntilRaise(Tail(images))

\* what extract_text_with_ocr returns: the page texts up to the first
\* failure, each followed by a blank line
OcrOutput(raster) ==
    IF raster.open THEN JoinTexts(UntilRaise(raster.images), <<NL, NL>>) ELSE <<>>

Blank(text) == \A i \in 1..Len(text) : text[i] \in Whitespace

\* -------------------------------------------------------------------- C1
\* C1: when the directly extracted page texts concatenate to a text that is
\* not blank, OCR is never called in that upload, and the text the handler
\* holds and writes for ingestion is the concatenation, in page order, of
\* the non-empty page texts.
C1_DirectTextNoOcr ==
    \A s \in Sessions :
        (local[s].parsed /\ ~ParserRaised(local[s].reader)
             /\ ~Blank(DirectText(local[s].reader)))
        => /\ ~local[s].ocr_called
           /\ local[s].extracted_text = DirectText(local[s].reader)
           /\ local[s].written => local[s].temp_text = DirectText(local[s].reader)
           /\ pc[s] # "ocr"

\* a two-page PDF with text on both pages has been ingested without OCR
C1_Witness ==
    \E s \in Sessions :
        /\ pc[s] = "return"
        /\ local[s].ingest = "ok"
        /\ Len(local[s].reader.pages) = 2
        /\ local[s].temp_text = <<" ", "a">>
        /\ ~local[s].ocr_called

\* -------------------------------------------------------------------- C2
\* the OCR engine returned non-empty text for the pages
OcrNonEmpty(raster) ==
    /\ raster.open
    /\ raster.images # <<>>
    /\ \A i \in 1..Len(raster.images) :
          ~raster.images[i].raise /\ raster.images[i].text # <<>>

\* the fallback is announced before OCR runs, and runs whenever the direct
\* text is blank
OcrAnnounced(s) ==
    /\ pc[s] = "ocr" => upload_status[s] = StatusOcrFallback(pdf_filename[s])
    /\ local[s].ocr_called <=>
          (pc[s] \in {"check", "ingest", "return"} /\ local[s].parsed
             /\ ~ParserRaised(local[s].reader) /\ Blank(DirectText(local[s].reader)))

\* C2 as stated: when the direct text is blank, OCR runs after the status
\* announcing it, and if the OCR engine returns non-empty text for the
\* pages, the OCR output is what is ingested and the upload ends with the
\* success status.
C2_Original ==
    \A s \in Sessions :
        /\ OcrAnnounced(s)
        /\ (pc[s] = "return" /\ local[s].ocr_called /\ OcrNonEmpty(local[s].raster))
           => /\ local[s].extracted_text # <<>>
              /\ local[s].written /\ local[s].temp_text = OcrOutput(local[s].raster)
              /\ upload_status[s] = StatusProcessed(pdf_filename[s])

\* C2 amended: when the direct text is blank, OCR runs after the status
\* announcing it; if the OCR output is not blank, the handler goes on to
\* the ingestion, the only content written for it is the OCR output, and
\* the upload ends with the success status exactly when the ingestion call
\* succeeded.
C2_OcrFallback ==
    \A s \in Sessions :
        /\ OcrAnnounced(s)
        /\ (pc[s] = "return" /\ local[s].ocr_called /\ ~Blank(OcrOutput(local[s].raster)))
           => /\ local[s].extracted_text = OcrOutput(local[s].raster)
              /\ local[s].ingest # "none"
              /\ local[s].written => local[s].temp_text = OcrOutput(local[s].raster)
              /\ upload_status[s] = StatusProcessed(pdf_filename[s])
                    <=> local[s].ingest = "ok"

\* a scanned PDF went through OCR and was ingested
C2_Witness ==
    \E s \in Sessions :
        /\ pc[s] = "return"
        /\ local[s].ocr_called
        /\ local[s].temp_text = <<"b", NL, NL>>
        /\ local[s].ingest = "ok"
        /\ upload_status[s] = StatusProcessed("scan.pdf")

\* -------------------------------------------------------------------- C7
\* C7: every failed upload ends the handler normally, with a failure
\* message in upload_status; no exception leaves the handler.
C7_Original ==
    \A s \in Sessions :
        pc[s] = "return"
        => /\ local[s].raised = None
           /\ local[s].ingest # "ok" => upload_status[s] \in FailureStatuses

\* -------------------------------------------------------------------- C8
\* C8: when the OCR engine raises on one page, the returned text still
\* holds the text of every other page, before and after the failing one.
C8_Original ==
    \A s \in Sessions :
        (local[s].ocr_called /\ local[s].raster.open)
        => local[s].extracted_text =
              JoinTexts(SelectSeq(local[s].raster.images, NotRaising), <<NL, NL>>)

\* -------------------------------------------------------------------- C9
\* C9: when the PDF parser raises, on opening or on any page, the upload
\* ends at once with the parse-error status; OCR is not called, no
\* ingestion is attempted, and the knowledge-base list, the vector store
\* and the Message sequence stay as they were.
C9_ParseErrorAborts ==
    /\ [](\A s \in Sessions :
            (local[s].parsed /\ ParserRaised(local[s].reader))
            => /\ pc[s] = "return"
               /\ upload_status[s] = StatusParseError(ExcText)
               /\ ~local[s].ocr_called
               /\ local[s].ingest = "none" /\ ~local[s].written
               /\ local[s].raised = None)
    /\ [][\A s \in Sessions :
            (\/ local[s].parsed /\ ParserRaised(local[s].reader)
             \/ local'[s].parsed /\ ParserRaised(local'[s].reader))
            => UNCHANGED <<knowledge_base_files, messages, vectordb>>]_vars

\* the parser raised on the second page, after the first had yielded text
C9_Witness ==
    \E s \in Sessions :
        /\ pc[s] = "return"
        /\ local[s].parsed
        /\ local[s].reader.open
        /\ Len(local[s].reader.pages) = 2
        /\ local[s].reader.pages[1].text = <<"a">>
        /\ local[s].reader.pages[2].raise
        /\ upload_status[s] = StatusParseError(ExcText)

\* -------------------------------------------------------------------- C3
\* the number of entries of seq equal to x
RECURSIVE Count(_, _)
Count(seq, x) ==
    IF seq = <<>> THEN 0
    ELSE (IF Head(seq) = x THEN 1 ELSE 0) + Count(Tail(seq), x)

\* C3 as stated: a filename that is in the knowledge-base list is there
\* exactly once, also when the same file was ingested twice.
C3_Original ==
    \A s \in Sessions : \A f \in Filenames :
        Count(knowledge_base_files[s], f) <= 1

\* C3 amended: a filename is in the knowledge-base list once per successful
\* ingestion of that file by the session: once after the first, twice when
\* the same file has been ingested twice.
C3_OncePerIngestion ==
    \A s \in Sessions : \A f \in Filenames :
        Count(knowledge_base_files[s], f) =
            CopiesIn([owner |-> s, file |-> f], vectordb[get_app(s)])

\* the same file has been ingested twice
C3_Witness ==
    \E s \in Sessions :
        /\ CopiesIn([owner |-> s, file |-> "contract.pdf"], vectordb[get_app(s)]) = 2
        /\ knowledge_base_files[s] = <<"contract.pdf", "contract.pdf">>

\* -------------------------------------------------------------------- C4
\* C4: clear_chat empties the Message sequence of its session and leaves
\* the knowledge-base list, db_path, the vector store, pdf_filename,
\* upload_status and user_question as they were.
C4_ClearChatFrame ==
    [][\A s \in Sessions :
          event' = Event("clear_chat", s)
          => /\ messages'[s] = <<>>
             /\ UNCHANGED <<knowledge_base_files, db_path, vectordb, pdf_filename,
                            upload_status, user_question>>]_vars

\* clear_chat has emptied the history of a session that has a document in
\* its knowledge base and a question typed in
C4_Witness ==
    \E s \in Sessions :
        /\ event = Event("clear_chat", s)
        /\ messages[s] = <<>>
        /\ knowledge_base_files[s] # <<>>
        /\ vectordb[get_app(s)] # EmptyBag
        /\ user_question[s] # ""

\* -------------------------------------------------------------------- C5
\* C5: a chat event with a non-empty question appends the user entry with
\* the question and, right after it, the assistant entry with the
\* provider's response; a chat event with an empty question changes nothing.
C5_Original ==
    [][\A s \in Sessions :
          event' = Event("chat", s)
          => IF user_question[s] # ""
             THEN \E r \in Answers :
                     messages'[s] = messages[s] \o
                         <<Message("user", user_question[s]), Message("assistant", r)>>
             ELSE UNCHANGED <<messages, user_question>>]_vars

\* -------------------------------------------------------------------- C6
\* C6: the store a session's chat queries holds only documents that this
\* session ingested.
C6_Original ==
    \A s \in Sessions :
        \A src \in BagToSet(vectordb[get_app(s)]) : src.owner = s

\* ------------------------------------------------------------------- C10
\* the step in which the ingestion call of session s succeeds
IngestSucceeds(s) == local[s].ingest = "none" /\ local'[s].ingest = "ok"

\* C10: the knowledge-base list changes only by handle_upload appending the
\* uploaded filename, which happens exactly in the step in which the
\* ingestion call succeeds and the status becomes "Processed and added F
\* to the knowledge base!"; every other step, and every upload that ends
\* otherwise, leaves the list as it was.
C10_AppendOnSuccess ==
    /\ [][\A s \in Sessions :
            IF IngestSucceeds(s)
            THEN /\ knowledge_base_files'[s] =
                        Append(knowledge_base_files[s], local[s].file.filename)
                 /\ upload_status'[s] = StatusProcessed(local[s].file.filename)
            ELSE /\ knowledge_base_files'[s] = knowledge_base_files[s]
                 /\ (\E f \in Filenames : upload_status'[s] = StatusProcessed(f))
                        => upload_status'[s] = upload_status[s]]_vars
    /\ [](\A s \in Sessions :
            (pc[s] = "return" /\ local[s].ingest # "ok")
            => upload_status[s] \notin {StatusProcessed(f) : f \in Filenames}
                  \/ local[s].raised # None)

\* an upload whose ingestion was rejected left the list of an earlier upload alone
C10_Witness ==
    \E s \in Sessions :
        /\ pc[s] = "return"
        /\ local[s].ingest = "ValueError"
        /\ knowledge_base_files[s] = <<"scan.pdf">>
        /\ upload_status[s] = StatusIngestFailed("contract.pdf", ExcText)
====
